---- MODULE Spec2Model ----
(***************************************************************************)
(* Model of terraform-provider-n8ncloud: the n8ncloud_user resource        *)
(* (Create / Read / Update / Delete / ImportState and the schema's plan    *)
(* modifiers), the n8ncloud_user data source (Read) and the entity client   *)
(* they call, against a remote n8n instance holding user records.           *)
(*                                                                         *)
(* The host (Terraform core and the plugin framework) is the environment:   *)
(* it edits the configuration, plans, and invokes one handler at a time.    *)
(* The remote instance is the environment too: it answers the client's      *)
(* calls, may fail any call, may leave `role` out of a response (the field  *)
(* is `omitempty` and the handlers test for ""), and its users change       *)
(* out-of-band.                                                             *)
(***************************************************************************)
EXTENDS Integers, Sequences, FiniteSets, TLC

VARIABLES
    users,      \* remote instance: user id -> user record (exists flag)
    clock,      \* remote instance time, in ticks (sub-second resolution)
    config,     \* resource configuration: [email, role]
    state,      \* persisted resource state: [present, attrs]
    plan,       \* the host's current plan for the resource: [kind, values]
    origin,     \* how the state came to be: "none", "create", "seeded" (ImportState
                \* ran, the Read that completes the import has not) or "import"
    lastOp,     \* the handler invoked last
    diags,      \* error summary of the last handler (NoError when none)
    calls,      \* API calls the last handler issued, in order
    drift,      \* attributes of the managed user changed out-of-band since Create/ImportState
    cfgEdited,  \* configuration edited since Create/ImportState
    dsConfig,   \* data source configuration of the last data source read: [id, email]
    dsState,    \* data source state: [present, attrs]
    detail,     \* detail text of the data source's error diagnostic ("" when none)
    providerData,   \* provider configuration: [api_key, instance_url, timeout]
    env,            \* environment variables: [N8N_API_KEY, N8N_INSTANCE_URL]
    apiClient,      \* the client Configure built and handed out, or NoClient
    providerDiags,  \* summaries and attribute paths of Configure's error diagnostics
    instances,      \* resource instances running handlers concurrently
    response,       \* what httpClient.Do came back with: [completed, status, body]
    result,         \* what doRequest returned: [err, error, body]
    nameConfig      \* first_name and last_name as the configuration gives them

\* What the provider's Configure, concurrently running instances and the
\* transport work on.
otherVars == <<providerData, env, apiClient, providerDiags, instances, response, result,
               nameConfig>>

vars == <<users, clock, config, state, plan, origin, lastOp, diags, calls, drift,
          cfgEdited, dsConfig, dsState, detail, otherVars>>

-----------------------------------------------------------------------------
(* Bounds of the model *)

\* The remote clock stops here: bounds the number of remote mutations.
MaxClock == 3

\* Ticks per second: remote timestamps are finer than RFC 3339 seconds.
TicksPerSecond == 2

-----------------------------------------------------------------------------
(* Value domains *)

Null == "<null>"          \* types.StringNull() / an attribute with no value
Unknown == "<unknown>"    \* a planned value not known until apply

\* Number of user ids the remote instance can ever hand out.
MaxUsers == 3

UserId(i) == "u" \o ToString(i)
UserIds == {UserId(i) : i \in 1..MaxUsers}
Emails == {"a@x.com", "b@x.com"}
ValidRoles == {"global:admin", "global:member"}
ConfigRoles == ValidRoles \cup {"invalid_role"}

NoError == ""

Attrs == {"id", "email", "role", "first_name", "last_name", "is_pending",
          "created_at", "updated_at", "invite_accept_url"}

NullAttrs == [a \in Attrs |-> Null]

AbsentState == [present |-> FALSE, attrs |-> NullAttrs]

NoPlan == [kind |-> "none", values |-> NullAttrs]

\* A slot of the remote instance: "free" (id never handed out), "live", or
\* "deleted" (ids are never reused).
NoUser == [status |-> "free", email |-> "", firstName |-> Null, lastName |-> Null,
           isPending |-> FALSE, createdAt |-> 0, updatedAt |-> 0, role |-> ""]

DeletedUser == [NoUser EXCEPT !.status = "deleted"]

-----------------------------------------------------------------------------
(* Conversions at the boundary between the REST representation and state *)

\* time.Time.Format(time.RFC3339): whole seconds, the fraction is dropped.
FormatRFC3339(t) == ToString(t \div TicksPerSecond)

\* types.BoolValue
BoolValue(b) == IF b THEN "true" ELSE "false"

\* types.String.ValueString(): null and unknown read as "".
ValueString(v) == IF v \in {Null, Unknown} THEN "" ELSE v

\* The one-time invitation link of a user.
InviteUrl(id) == "https://invite/" \o id

-----------------------------------------------------------------------------
(* Entity client over the remote instance.  Each call takes the outcome the *)
(* environment chose for it: ok (the call is not cut by a transport or API  *)
(* failure) and withRole (the response carries the role field).             *)

\* client.User as decoded from a response body.
UserJSON(us, id, withRole, withInvite) ==
    LET u == us[id] IN
    [ID |-> id, Email |-> u.email, FirstName |-> u.firstName, LastName |-> u.lastName,
     IsPending |-> u.isPending, CreatedAt |-> u.createdAt, UpdatedAt |-> u.updatedAt,
     Role |-> IF withRole THEN u.role ELSE "",
     InviteAcceptUrl |-> IF withInvite THEN InviteUrl(id) ELSE ""]

ZeroUser == [ID |-> "", Email |-> "", FirstName |-> Null, LastName |-> Null,
             IsPending |-> FALSE, CreatedAt |-> 0, UpdatedAt |-> 0, Role |-> "",
             InviteAcceptUrl |-> ""]

\* Mutant: the path slot takes the email only.
LookupEmailOnly(us, ident) ==
    {u \in UserIds : us[u].status = "live" /\ us[u].email = ident}

\* GET /users/{idOrEmail}: the path slot takes the id or the email.
Lookup(us, ident) ==
    {u \in UserIds : us[u].status = "live" /\ (u = ident \/ us[u].email = ident)}

GetUser(us, id, ok, withRole) ==
    LET hit == Lookup(us, id) IN
    IF ok /\ hit # {}
    THEN [err |-> FALSE, user |-> UserJSON(us, CHOOSE u \in hit : TRUE, withRole, FALSE)]
    ELSE [err |-> TRUE, user |-> ZeroUser]

GetUserByEmail(us, email, ok, withRole) == GetUser(us, email, ok, withRole)

\* The id the remote instance hands out next.
FreshIds(us) ==
    {i \in 1..MaxUsers : \A j \in 1..MaxUsers : us[UserId(j)].status = "free" <=> j >= i}

\* What the instance decides for a user it creates: the role it gives, the
\* names it fills in, whether an invitation is pending.
Assigned(role, firstName, lastName, isPending) ==
    [role |-> role, firstName |-> firstName, lastName |-> lastName,
     isPending |-> isPending]

\* POST /users as the instance serves it.  The instance refuses a taken email
\* and a role it does not know, and stores the user as it decides (given).
PostUsers(us, clk, req, ok, withRole, given) ==
    LET taken == \E u \in UserIds : us[u].status = "live" /\ us[u].email = req.Email
        accepted == ok /\ FreshIds(us) # {} /\ ~taken /\ req.Role \in ValidRoles
        id == UserId(CHOOSE i \in FreshIds(us) : TRUE)
        created == [status |-> "live", email |-> req.Email, firstName |-> given.firstName,
                    lastName |-> given.lastName, isPending |-> given.isPending,
                    createdAt |-> clk + 1, updatedAt |-> clk + 1, role |-> given.role]
        after == [us EXCEPT ![id] = created]
    IN IF accepted
       THEN [err |-> FALSE, users |-> after, clock |-> clk + 1,
             user |-> [ID |-> id, Email |-> created.email, FirstName |-> created.firstName,
                       LastName |-> created.lastName, IsPending |-> created.isPending,
                       CreatedAt |-> created.createdAt, UpdatedAt |-> created.updatedAt,
                       Role |-> IF withRole THEN created.role ELSE "",
                       InviteAcceptUrl |-> InviteUrl(id)]]
       ELSE [err |-> TRUE, users |-> us, clock |-> clk, user |-> ZeroUser]

\* CreateUser against an instance that stores the requested role, no names,
\* and an invitation that is pending.
CreateUser(us, clk, req, ok, withRole) ==
    PostUsers(us, clk, req, ok, withRole, Assigned(req.Role, Null, Null, TRUE))

\* PATCH /users/{id}/role.  No response body is used.
UpdateUserRole(us, clk, id, newRole, ok) ==
    LET hit == Lookup(us, id)
        accepted == ok /\ hit # {} /\ newRole \in ValidRoles
        u == CHOOSE x \in hit : TRUE
    IN IF accepted
       THEN [err |-> FALSE, clock |-> clk + 1,
             users |-> [us EXCEPT ![u].role = newRole, ![u].updatedAt = clk + 1]]
       ELSE [err |-> TRUE, clock |-> clk, users |-> us]

\* DELETE /users/{id}.  A missing user is a 404, which the transport reports as an error.
DeleteUser(us, id, ok) ==
    LET hit == Lookup(us, id)
        accepted == ok /\ hit # {}
        u == CHOOSE x \in hit : TRUE
    IN IF accepted
       THEN [err |-> FALSE, users |-> [us EXCEPT ![u] = DeletedUser]]
       ELSE [err |-> TRUE, users |-> us]

\* One logged API call.
Call(method, ident, email, role) ==
    [method |-> method, ident |-> ident, email |-> email, role |-> role]

-----------------------------------------------------------------------------
(* Errors of the transport.  When the remote instance refuses a request it   *)
(* answers with a status >= 400 and a body of its own wording; the wording   *)
(* is the instance's choice (style).  The instance sees the path only: the   *)
(* same request is issued whether the caller holds an id or an email.        *)

ReplyStyles == {"message", "named", "raw"}

\* A response with a status >= 400: json says whether the body decodes as
\* ErrorResponse {code, message}; text is the body as sent.
ErrorReply(status, code, message, style) ==
    [status |-> status, json |-> style # "raw", code |-> code, message |-> message,
     text |-> message]

\* GET, PATCH or DELETE for an identifier the instance has no user for.
NotFoundReply(ident, style) ==
    IF style = "named"
    THEN ErrorReply(404, "not_found", "User with ID \"" \o ident \o "\" not found", style)
    ELSE ErrorReply(404, "not_found", "User not found", style)

\* doRequest, status >= 400: the structured error when the body decodes, the
\* raw status and body otherwise.
DoRequestError(reply) ==
    IF reply.json
    THEN "API error: " \o reply.code \o " - " \o reply.message
    ELSE "HTTP " \o ToString(reply.status) \o ": " \o reply.text

\* doRequest, httpClient.Do failed: no response at all.
TransportError == "failed to perform request: context deadline exceeded"

\* The error a failed call returns: ok says the request reached the instance
\* and was answered, reply is the answer of the instance that refused it.
RequestError(ok, reply) == IF ok THEN DoRequestError(reply) ELSE TransportError

\* Status codes of completed responses, on both sides of 400.
Statuses == {200, 201, 204, 399, 400, 401, 404, 500}

\* ErrorResponse.Code and ErrorResponse.Message as instances send them.
ErrorCodes == {"not_found", "unauthorized"}

ErrorMessages == {"User not found", "invalid api key"}

\* A body that is the JSON of an ErrorResponse.
StructuredBody(code, message) ==
    "{\"code\":\"" \o code \o "\",\"message\":\"" \o message \o "\"}"

\* A JSON object with a number where ErrorResponse.Code wants a string.
NumericCodeBody(message) == "{\"code\":404,\"message\":\"" \o message \o "\"}"

\* A JSON object with none of the fields of ErrorResponse.
OtherObjectBody == "{\"error\":\"forbidden\"}"

\* A body that is no JSON: a proxy's page.
TextBody == "<html>Bad Gateway</html>"

\* A body that is the JSON of a User.
UserBody == "{\"id\":\"u1\",\"email\":\"b@x.com\"}"

\* The bodies of completed responses.
Bodies ==
    {StructuredBody(c, m) : c \in ErrorCodes, m \in ErrorMessages}
        \cup {NumericCodeBody("User not found"), OtherObjectBody, TextBody, UserBody, ""}

\* json.Unmarshal(respBody, &errResp): the fields present in a JSON object are
\* taken, the absent ones stay empty, unknown ones are skipped; a number for
\* the string field, a text that is no JSON and the empty text are errors.
Unmarshal(body) ==
    IF \E c \in ErrorCodes, m \in ErrorMessages : body = StructuredBody(c, m)
    THEN LET cm == CHOOSE cm \in ErrorCodes \X ErrorMessages :
                      body = StructuredBody(cm[1], cm[2])
         IN [err |-> FALSE, Code |-> cm[1], Message |-> cm[2]]
    ELSE IF body \in {OtherObjectBody, UserBody}
    THEN [err |-> FALSE, Code |-> "", Message |-> ""]
    ELSE [err |-> TRUE, Code |-> "", Message |-> ""]

\* httpClient.Do returned an error: there is no response.
NoResponse == [completed |-> FALSE, status |-> 0, body |-> ""]

\* What httpClient.Do can come back with.
Responses ==
    {NoResponse} \cup [completed : {TRUE}, status : Statuses, body : Bodies]

\* doRequest has not returned.
NoResult == [err |-> FALSE, error |-> "", body |-> ""]

\* Mutant: only statuses above 400 are errors.
doRequestAbove400(resp) ==
    IF ~resp.completed THEN [err |-> TRUE, error |-> TransportError, body |-> ""]
    ELSE IF resp.status > 400
    THEN LET decoded == Unmarshal(resp.body)
         IN [err |-> TRUE, body |-> "",
             error |-> DoRequestError([status |-> resp.status, json |-> ~decoded.err,
                                       code |-> decoded.Code, message |-> decoded.Message,
                                       text |-> resp.body])]
    ELSE [err |-> FALSE, error |-> "", body |-> resp.body]

\* doRequest from httpClient.Do on: (nil, err) or (respBody, nil).
doRequest(resp) ==
    IF ~resp.completed THEN [err |-> TRUE, error |-> TransportError, body |-> ""]
    ELSE IF resp.status >= 400
    THEN LET decoded == Unmarshal(resp.body)
         IN [err |-> TRUE, body |-> "",
             error |-> DoRequestError([status |-> resp.status, json |-> ~decoded.err,
                                       code |-> decoded.Code, message |-> decoded.Message,
                                       text |-> resp.body])]
    ELSE [err |-> FALSE, error |-> "", body |-> resp.body]

-----------------------------------------------------------------------------
(* UserResource.Schema: attribute flags and plan modifiers *)

RequiredAttrs == {"email", "role"}

ComputedAttrs == Attrs \ RequiredAttrs

\* stringplanmodifier.UseStateForUnknown() / boolplanmodifier.UseStateForUnknown()
UseStateForUnknownAttrs == {"id", "is_pending", "created_at", "updated_at"}

\* Mutant: email declared without RequiresReplace.
RequiresReplaceAttrsNone == {}

\* stringplanmodifier.RequiresReplace()
RequiresReplaceAttrs == {"email"}

\* The values the host proposes: configuration for the required attributes,
\* the prior state (null when there is none) for the computed ones.
ProposedNewState(cfg, st) ==
    [a \in Attrs |-> IF a \in RequiredAttrs THEN cfg[a] ELSE st.attrs[a]]

\* The planned values.  When the proposal differs from the prior state (or there
\* is no prior state) every computed attribute is marked unknown, then
\* UseStateForUnknown puts the prior value back where the schema asks for it
\* and a prior state exists.
PlannedValues(cfg, st) ==
    LET proposed == ProposedNewState(cfg, st) IN
    IF st.present /\ proposed = st.attrs
    THEN proposed
    ELSE [a \in Attrs |->
            IF a \in ComputedAttrs
            THEN IF st.present /\ a \in UseStateForUnknownAttrs
                 THEN st.attrs[a]
                 ELSE Unknown
            ELSE proposed[a]]

\* What the host schedules for the planned values.
PlanKind(cfg, st) ==
    LET values == PlannedValues(cfg, st) IN
    IF ~st.present THEN "create"
    ELSE IF values = st.attrs THEN "noop"
    ELSE IF \E a \in RequiresReplaceAttrs : values[a] # st.attrs[a] THEN "replace"
    ELSE "update"

\* Configuration validation by the schema: email and role are Required; no
\* attribute carries a validator.
ValidateResourceConfig(cfg) == \A a \in RequiredAttrs : cfg[a] # Null

\* A configuration that gives neither first_name nor last_name.
NoNames == [first_name |-> Null, last_name |-> Null]

\* What configurations give for first_name and for last_name.
FirstNames == {Null, "Test", "Updated"}

LastNames == {Null, "User", "Admin"}

ReadOnlyAttribute == "Invalid Configuration for Read-Only Attribute"

\* The attributes the configuration gives a value for although the schema
\* declares them Computed and neither Optional nor Required: the host rejects
\* such a configuration when it validates it.
ReadOnlyConfigured(names) == {a \in DOMAIN names : names[a] # Null}

PlanResourceChange(cfg, st) ==
    [kind |-> PlanKind(cfg, st), values |-> PlannedValues(cfg, st)]

-----------------------------------------------------------------------------
(* UserResource handlers: the mapping of a response onto the model *)

\* Mutant: Create copies the response's role without testing it for "".
CreateStateRoleUnguarded(data, user) ==
    [data EXCEPT
        !["id"] = user.ID,
        !["is_pending"] = BoolValue(user.IsPending),
        !["created_at"] = FormatRFC3339(user.CreatedAt),
        !["updated_at"] = FormatRFC3339(user.UpdatedAt),
        !["role"] = user.Role,
        !["first_name"] = user.FirstName,
        !["last_name"] = user.LastName,
        !["invite_accept_url"] =
            IF user.InviteAcceptUrl # "" THEN user.InviteAcceptUrl ELSE Null]

\* Mutant: Create leaves the planned role in place whatever the response says.
CreateStateKeepsPlannedRole(data, user) ==
    [data EXCEPT
        !["id"] = user.ID,
        !["is_pending"] = BoolValue(user.IsPending),
        !["created_at"] = FormatRFC3339(user.CreatedAt),
        !["updated_at"] = FormatRFC3339(user.UpdatedAt),
        !["first_name"] = user.FirstName,
        !["last_name"] = user.LastName,
        !["invite_accept_url"] =
            IF user.InviteAcceptUrl # "" THEN user.InviteAcceptUrl ELSE Null]

\* Create: "Map response body to schema and populate computed attributes".
CreateState(data, user) ==
    [data EXCEPT
        !["id"] = user.ID,
        !["is_pending"] = BoolValue(user.IsPending),
        !["created_at"] = FormatRFC3339(user.CreatedAt),
        !["updated_at"] = FormatRFC3339(user.UpdatedAt),
        !["role"] = IF user.Role # "" THEN user.Role ELSE @,
        !["first_name"] = user.FirstName,
        !["last_name"] = user.LastName,
        !["invite_accept_url"] =
            IF user.InviteAcceptUrl # "" THEN user.InviteAcceptUrl ELSE Null]

\* Mutant: Read copies the response's role without testing it for "".
ReadStateRoleUnguarded(data, user) ==
    [data EXCEPT
        !["email"] = user.Email,
        !["is_pending"] = BoolValue(user.IsPending),
        !["created_at"] = FormatRFC3339(user.CreatedAt),
        !["updated_at"] = FormatRFC3339(user.UpdatedAt),
        !["role"] = user.Role,
        !["first_name"] = user.FirstName,
        !["last_name"] = user.LastName,
        !["invite_accept_url"] =
            IF user.InviteAcceptUrl # "" THEN user.InviteAcceptUrl ELSE Null]

\* Read: "Update the model with the latest data" (id is not touched).
ReadState(data, user) ==
    [data EXCEPT
        !["email"] = user.Email,
        !["is_pending"] = BoolValue(user.IsPending),
        !["created_at"] = FormatRFC3339(user.CreatedAt),
        !["updated_at"] = FormatRFC3339(user.UpdatedAt),
        !["role"] = IF user.Role # "" THEN user.Role ELSE @,
        !["first_name"] = user.FirstName,
        !["last_name"] = user.LastName,
        !["invite_accept_url"] =
            IF user.InviteAcceptUrl # "" THEN user.InviteAcceptUrl ELSE Null]

\* Update: the planned values with updated_at refreshed from the re-fetch.
UpdateState(data, user) ==
    [data EXCEPT !["updated_at"] = FormatRFC3339(user.UpdatedAt)]

\* Mutant: ImportState seeds id with the import identifier (the email).
ImportedStatePassthroughID(user) ==
    [NullAttrs EXCEPT !["id"] = user.Email, !["email"] = user.Email]

\* ImportState: SetAttribute on id and on email, nothing else.
ImportedState(user) ==
    [NullAttrs EXCEPT !["id"] = user.ID, !["email"] = user.Email]

-----------------------------------------------------------------------------
(* UserResource handlers: what each leaves in state and in the diagnostics, *)
(* given the results of the client calls it made                            *)

ClientError == "Client Error"

Present(attrs) == [present |-> TRUE, attrs |-> attrs]

\* Create: an error from CreateUser returns before State.Set.
CreateResult(st, data, created) ==
    IF created.err
    THEN [state |-> st, diags |-> ClientError]
    ELSE [state |-> Present(CreateState(data, created.user)), diags |-> NoError]

\* Read: an error from GetUser returns before State.Set.
ReadResult(st, got) ==
    IF got.err
    THEN [state |-> st, diags |-> ClientError]
    ELSE [state |-> Present(ReadState(st.attrs, got.user)), diags |-> NoError]

\* Mutant: Update saves the planned values before the re-fetch.
UpdateResultSavedEarly(st, data, patched, got) ==
    IF patched.err
    THEN [state |-> st, diags |-> ClientError]
    ELSE IF got.err
    THEN [state |-> Present(data), diags |-> ClientError]
    ELSE [state |-> Present(UpdateState(data, got.user)), diags |-> NoError]

\* Update: an error from UpdateUserRole or from the re-fetch returns before State.Set.
UpdateResult(st, data, patched, got) ==
    IF patched.err
    THEN [state |-> st, diags |-> ClientError]
    ELSE IF got.err
    THEN [state |-> st, diags |-> ClientError]
    ELSE [state |-> Present(UpdateState(data, got.user)), diags |-> NoError]

\* Delete: on success the handler writes nothing and the state is dropped.
DeleteResult(st, deleted) ==
    IF deleted.err
    THEN [state |-> st, diags |-> ClientError]
    ELSE [state |-> AbsentState, diags |-> NoError]

\* ImportState: an error from GetUser returns before the SetAttribute calls.
ImportStateResult(st, got) ==
    IF got.err
    THEN [state |-> st, diags |-> ClientError]
    ELSE [state |-> Present(ImportedState(got.user)), diags |-> NoError]

-----------------------------------------------------------------------------
(* N8nCloudProvider.Configure and client.NewClient *)

\* Largest explicit timeout (seconds) a provider configuration carries here.
MaxTimeout == 2

\* const defaultTimeout = 30 * time.Second, in seconds.
defaultTimeout == 30

\* Values of the string settings: not set, not yet known, set to "", set.
ApiKeyValues == {Null, Unknown, "", "key-cfg"}
InstanceUrlValues == {Null, Unknown, "", "https://cfg.app.n8n.cloud"}
\* types.Int64: null, unknown, or a known integer.
Int64Null == [state |-> "null", value |-> 0]
Int64Unknown == [state |-> "unknown", value |-> 0]
Int64Value(n) == [state |-> "known", value |-> n]

\* Values of timeout: not set, not yet known, set to an integer.
TimeoutValues == {Int64Null, Int64Unknown} \cup {Int64Value(n) : n \in -1..MaxTimeout}

\* os.Getenv gives "" for a variable that is not set.
EnvApiKeyValues == {"", "key-env"}
EnvInstanceUrlValues == {"", "https://env.app.n8n.cloud"}

NoEnvironment == [N8N_API_KEY |-> "", N8N_INSTANCE_URL |-> ""]

NoClient == [built |-> FALSE, baseURL |-> "", apiKey |-> "", timeout |-> 0]

\* types.Int64.ValueInt64(): null and unknown read as 0.
ValueInt64(v) == IF v.state = "known" THEN v.value ELSE 0

\* NewClient: the client for a client.Config, timeouts in seconds.
NewClient(cfg) ==
    IF cfg.BaseURL = "" THEN [err |-> "base URL is required", client |-> NoClient]
    ELSE IF cfg.APIKey = "" THEN [err |-> "API key is required", client |-> NoClient]
    ELSE [err |-> "",
          client |-> [built |-> TRUE, baseURL |-> cfg.BaseURL, apiKey |-> cfg.APIKey,
                      timeout |-> IF cfg.Timeout = 0 THEN defaultTimeout ELSE cfg.Timeout]]

\* One attribute error diagnostic.
AttributeError(attr, summary) == [path |-> attr, summary |-> summary]

\* "Check configuration values": an error for each unknown setting.
UnknownDiags(data) ==
    (IF data.api_key = Unknown
     THEN {AttributeError("api_key", "Unknown n8n Cloud API Key")} ELSE {})
    \cup (IF data.instance_url = Unknown
          THEN {AttributeError("instance_url", "Unknown n8n Cloud Instance URL")} ELSE {})

\* Mutant: an environment variable that is set wins over the configuration.
ResolvedConfigEnvFirst(data, environ) ==
    [APIKey |-> IF environ.N8N_API_KEY # "" THEN environ.N8N_API_KEY
                ELSE ValueString(data.api_key),
     BaseURL |-> IF environ.N8N_INSTANCE_URL # "" THEN environ.N8N_INSTANCE_URL
                 ELSE ValueString(data.instance_url),
     Timeout |-> IF data.timeout # Int64Null THEN ValueInt64(data.timeout) ELSE 30]

\* "Default values to environment variables, but override with Terraform
\* configuration value if set."
ResolvedConfig(data, environ) ==
    [APIKey |-> IF data.api_key # Null THEN ValueString(data.api_key)
                ELSE environ.N8N_API_KEY,
     BaseURL |-> IF data.instance_url # Null THEN ValueString(data.instance_url)
                 ELSE environ.N8N_INSTANCE_URL,
     Timeout |-> IF data.timeout # Int64Null THEN ValueInt64(data.timeout) ELSE 30]

\* Mutant: only the API key is validated.
MissingDiagsKeyOnly(cfg) ==
    IF cfg.APIKey = ""
    THEN {AttributeError("api_key", "Missing n8n Cloud API Key")} ELSE {}

\* "Validate configuration": an error for each setting resolved to "".
MissingDiags(cfg) ==
    (IF cfg.APIKey = ""
     THEN {AttributeError("api_key", "Missing n8n Cloud API Key")} ELSE {})
    \cup (IF cfg.BaseURL = ""
          THEN {AttributeError("instance_url", "Missing n8n Cloud Instance URL")} ELSE {})

\* Configure: the diagnostics it reports and the client it hands to resources
\* and data sources (ResourceData, DataSourceData), NoClient when it returns early.
ConfigureResult(data, environ) ==
    LET cfg == ResolvedConfig(data, environ)
        made == NewClient(cfg)
    IN IF UnknownDiags(data) # {}
       THEN [diags |-> UnknownDiags(data), client |-> NoClient]
       ELSE IF MissingDiags(cfg) # {}
       THEN [diags |-> MissingDiags(cfg), client |-> NoClient]
       ELSE IF made.err # ""
       THEN [diags |-> {AttributeError("", "Unable to create n8n Cloud API Client")},
             client |-> NoClient]
       ELSE [diags |-> {}, client |-> made.client]

\* The provider configuration the resource and the data source run under.
ConfiguredProvider ==
    [api_key |-> "key-cfg", instance_url |-> "https://cfg.app.n8n.cloud",
     timeout |-> Int64Null]

-----------------------------------------------------------------------------
(* Resource instances whose handlers run concurrently *)

\* The host runs one handler at a time per resource instance and handlers of
\* different instances at the same time.  An instance is its configuration, its
\* state, and the handler invocation in progress: pc says where Update stands
\* ("patched": UpdateUserRole returned, GetUser not yet issued), data is the
\* handler's local model, pending the outcome the remote has in store for the
\* GetUser to come, alone the result the handler leaves when it runs with no
\* call of another instance between its own.
InstanceIds == {"A", "B"}

IdleInstance ==
    [pc |-> "idle", cfg |-> [email |-> Null, role |-> Null],
     state |-> AbsentState, diags |-> NoError, data |-> NullAttrs,
     pending |-> [ok |-> TRUE, withRole |-> TRUE],
     alone |-> [state |-> AbsentState, diags |-> NoError]]

NoInstances == [i \in InstanceIds |-> IdleInstance]

\* Mutant: the handler keeps its model in a field of the UserResource, which
\* all instances of the resource type share.
HandlerDataShared(insts, i) == insts["A"].data

\* "var data UserResourceModel": the model is a local of the invocation.
HandlerData(insts, i) == insts[i].data

\* A handler invocation that ended: its locals are gone.
Ended(inst, res) ==
    [inst EXCEPT !.pc = "idle", !.state = res.state, !.diags = res.diags,
                 !.data = NullAttrs, !.pending = IdleInstance.pending,
                 !.alone = IdleInstance.alone]


-----------------------------------------------------------------------------
(* The API calls a handler issues, in order, given the results of its calls *)

CreateCalls(req) == <<Call("POST", "", req.Email, req.Role)>>

ReadCalls(id) == <<Call("GET", id, "", "")>>

\* Mutant: Update re-fetches the user whether or not the role change went through.
UpdateCallsRefetchAlways(id, role, patched) ==
    <<Call("PATCH", id, "", role), Call("GET", id, "", "")>>

\* Update returns after a failed UpdateUserRole; GetUser follows a successful one.
UpdateCalls(id, role, patched) ==
    IF patched.err
    THEN <<Call("PATCH", id, "", role)>>
    ELSE <<Call("PATCH", id, "", role), Call("GET", id, "", "")>>

DeleteCalls(id) == <<Call("DELETE", id, "", "")>>

ImportStateCalls(email) == <<Call("GET", email, "", "")>>

-----------------------------------------------------------------------------
(* Initial state: a remote instance with one member, nothing managed yet *)

\* The member the remote instance starts with.
FirstUser ==
    [status |-> "live", email |-> "b@x.com", firstName |-> "Ann", lastName |-> "Lee",
     isPending |-> FALSE, createdAt |-> 0, updatedAt |-> 0, role |-> "global:member"]

\* The resource and the data source before any handler ran.
InitHandlers ==
    /\ config = [email |-> "a@x.com", role |-> "global:member"]
    /\ state = AbsentState
    /\ plan = NoPlan
    /\ origin = "none"
    /\ lastOp = "none"
    /\ diags = NoError
    /\ calls = <<>>
    /\ drift = {}
    /\ cfgEdited = FALSE
    /\ dsConfig = [id |-> Null, email |-> Null]
    /\ dsState = AbsentState
    /\ detail = ""
    /\ nameConfig = NoNames

\* The remote instance, the resource and the data source before any handler ran.
InitResource ==
    /\ users = [u \in UserIds |-> IF u = UserId(1) THEN FirstUser ELSE NoUser]
    /\ clock = 0
    /\ InitHandlers
    /\ instances = NoInstances
    /\ response = NoResponse
    /\ result = NoResult

\* A provider that Configure has given its client.
InitConfigured ==
    /\ providerData = ConfiguredProvider
    /\ env = NoEnvironment
    /\ apiClient = ConfigureResult(ConfiguredProvider, NoEnvironment).client
    /\ providerDiags = {}

\* The handlers run under a configured provider.
Init == InitResource /\ InitConfigured

\* A second user of the remote instance, invited and still pending.
SecondUser ==
    [status |-> "live", email |-> "a@x.com", firstName |-> Null, lastName |-> Null,
     isPending |-> TRUE, createdAt |-> 0, updatedAt |-> 0, role |-> "global:admin"]

\* The user each resource instance manages.
UserOf(i) == IF i = "A" THEN UserId(1) ELSE UserId(2)

\* Two resource instances, each managing a user of its own, refreshed.
InitConcurrent ==
    LET us == [u \in UserIds |->
                  IF u = UserId(1) THEN FirstUser
                  ELSE IF u = UserId(2) THEN SecondUser ELSE NoUser]
        fetched(i) == UserJSON(us, UserOf(i), TRUE, FALSE)
    IN /\ users = us
       /\ clock = 0
       /\ InitHandlers
       /\ InitConfigured
       /\ response = NoResponse
       /\ result = NoResult
       /\ instances =
             [i \in InstanceIds |->
                [IdleInstance EXCEPT
                    !.cfg = [email |-> us[UserOf(i)].email, role |-> us[UserOf(i)].role],
                    !.state = Present(ReadState(ImportedState(fetched(i)), fetched(i)))]]

\* A provider not yet configured, under any configuration and environment.
InitConfigure ==
    /\ InitResource
    /\ providerData \in [api_key : ApiKeyValues, instance_url : InstanceUrlValues,
                         timeout : TimeoutValues]
    /\ env \in [N8N_API_KEY : EnvApiKeyValues, N8N_INSTANCE_URL : EnvInstanceUrlValues]
    /\ apiClient = NoClient
    /\ providerDiags = {}

\* The client about to read the outcome of httpClient.Do, whatever it is.
InitTransport ==
    /\ users = [u \in UserIds |-> IF u = UserId(1) THEN FirstUser ELSE NoUser]
    /\ clock = 0
    /\ InitHandlers
    /\ InitConfigured
    /\ instances = NoInstances
    /\ response \in Responses
    /\ result = NoResult

\* Bookkeeping of a handler invocation.
Invoked(op) == lastOp' = op

-----------------------------------------------------------------------------
(* The host: configuration edits and planning *)

EditConfig(email, role) ==
    /\ config' = [email |-> email, role |-> role]
    /\ config' # config
    /\ plan' = NoPlan
    /\ cfgEdited' = state.present
    /\ UNCHANGED <<detail, otherVars>>
    /\ UNCHANGED <<users, clock, state, origin, lastOp, diags, calls,
                   drift, dsConfig, dsState>>

\* The host plans over a refreshed state: an import is ImportState and then Read.
Plan ==
    /\ plan.kind = "none"
    /\ origin # "seeded"
    /\ ValidateResourceConfig(config)
    /\ plan' = PlanResourceChange(config, state)
    /\ UNCHANGED <<detail, otherVars>>
    /\ UNCHANGED <<users, clock, config, state, origin, lastOp, diags,
                   calls, drift, cfgEdited, dsConfig, dsState>>

\* The host takes up a configuration with other names.
EditNames(firstName, lastName) ==
    /\ nameConfig' = [first_name |-> firstName, last_name |-> lastName]
    /\ nameConfig' # nameConfig
    /\ plan' = NoPlan
    /\ cfgEdited' = state.present
    /\ UNCHANGED <<providerData, env, apiClient, providerDiags, instances, response,
                   result>>
    /\ UNCHANGED <<users, clock, config, state, origin, lastOp, diags, calls,
                   drift, dsConfig, dsState, detail>>

\* The host validates a configuration that sets a read-only attribute: an
\* error, no plan, no handler of the resource invoked.
ValidateNames ==
    /\ plan.kind = "none"
    /\ origin # "seeded"
    /\ ReadOnlyConfigured(nameConfig) # {}
    /\ diags' = ReadOnlyAttribute
    /\ calls' = <<>>
    /\ Invoked("ValidateResourceConfig")
    /\ UNCHANGED <<detail, otherVars>>
    /\ UNCHANGED <<users, clock, config, state, plan, origin, drift, cfgEdited,
                   dsConfig, dsState>>

\* The host plans a configuration that passed validation.
PlanNamed ==
    /\ ReadOnlyConfigured(nameConfig) = {}
    /\ Plan

PlanDestroy ==
    /\ plan.kind = "none"
    /\ origin # "seeded"
    /\ state.present
    /\ plan' = [kind |-> "delete", values |-> NullAttrs]
    /\ UNCHANGED <<detail, otherVars>>
    /\ UNCHANGED <<users, clock, config, state, origin, lastOp, diags,
                   calls, drift, cfgEdited, dsConfig, dsState>>

\* The host configures the provider, once per provider invocation.
Configure ==
    /\ lastOp = "none"
    /\ LET res == ConfigureResult(providerData, env)
       IN /\ apiClient' = res.client
          /\ providerDiags' = res.diags
    /\ Invoked("Configure")
    /\ UNCHANGED <<users, clock, config, state, plan, origin, diags, calls, drift,
                   cfgEdited, dsConfig, dsState, detail, providerData, env, instances,
                   response, result, nameConfig>>

-----------------------------------------------------------------------------
(* The transport *)

DoRequest ==
    /\ lastOp = "none"
    /\ result' = doRequest(response)
    /\ Invoked("doRequest")
    /\ UNCHANGED <<users, clock, config, state, plan, origin, diags, calls, drift,
                   cfgEdited, dsConfig, dsState, detail, providerData, env, apiClient,
                   providerDiags, instances, response, nameConfig>>

-----------------------------------------------------------------------------
(* UserResource handlers *)

Create(ok, withRole) ==
    /\ plan.kind = "create"
    /\ clock < MaxClock
    /\ LET data == plan.values
           createReq == [Email |-> ValueString(data["email"]),
                         Role |-> ValueString(data["role"])]
           created == CreateUser(users, clock, createReq, ok, withRole)
           res == CreateResult(state, data, created)
       IN /\ users' = created.users
          /\ clock' = created.clock
          /\ calls' = CreateCalls(createReq)
          /\ state' = res.state
          /\ diags' = res.diags
          /\ origin' = IF created.err THEN origin ELSE "create"
          /\ drift' = IF created.err THEN drift ELSE {}
          /\ cfgEdited' = IF created.err THEN cfgEdited ELSE FALSE
    /\ plan' = NoPlan
    /\ Invoked("Create")
    /\ UNCHANGED <<detail, otherVars>>
    /\ UNCHANGED <<config, dsConfig, dsState>>

\* Create against an instance that decides the stored user itself: it may give
\* a role other than the requested one.
CreateOverridden(ok, withRole, given) ==
    /\ plan.kind = "create"
    /\ clock < MaxClock
    /\ LET data == plan.values
           createReq == [Email |-> ValueString(data["email"]),
                         Role |-> ValueString(data["role"])]
           created == PostUsers(users, clock, createReq, ok, withRole, given)
           res == CreateResult(state, data, created)
       IN /\ users' = created.users
          /\ clock' = created.clock
          /\ calls' = CreateCalls(createReq)
          /\ state' = res.state
          /\ diags' = res.diags
          /\ origin' = IF created.err THEN origin ELSE "create"
          /\ drift' = IF created.err THEN drift ELSE {}
          /\ cfgEdited' = IF created.err THEN cfgEdited ELSE FALSE
    /\ plan' = NoPlan
    /\ Invoked("Create")
    /\ UNCHANGED <<detail, otherVars>>
    /\ UNCHANGED <<config, dsConfig, dsState>>

Read(ok, withRole) ==
    /\ state.present
    /\ LET id == ValueString(state.attrs["id"])
           got == GetUser(users, id, ok, withRole)
           res == ReadResult(state, got)
       IN /\ calls' = ReadCalls(id)
          /\ state' = res.state
          /\ diags' = res.diags
          /\ origin' = IF ~got.err /\ origin = "seeded" THEN "import" ELSE origin
    /\ plan' = NoPlan
    /\ Invoked("Read")
    /\ UNCHANGED <<detail, otherVars>>
    /\ UNCHANGED <<users, clock, config, drift, cfgEdited, dsConfig, dsState>>

Update(okPatch, okGet, withRole) ==
    /\ plan.kind = "update"
    /\ clock < MaxClock
    /\ LET data == plan.values
           id == ValueString(data["id"])
           role == ValueString(data["role"])
           patched == UpdateUserRole(users, clock, id, role, okPatch)
           got == GetUser(patched.users, id, okGet, withRole)
           res == UpdateResult(state, data, patched, got)
       IN /\ users' = patched.users
          /\ clock' = patched.clock
          /\ calls' = UpdateCalls(id, role, patched)
          /\ state' = res.state
          /\ diags' = res.diags
    /\ plan' = NoPlan
    /\ Invoked("Update")
    /\ UNCHANGED <<detail, otherVars>>
    /\ UNCHANGED <<config, origin, drift, cfgEdited, dsConfig, dsState>>

Delete(ok) ==
    /\ plan.kind \in {"replace", "delete"}
    /\ LET id == ValueString(state.attrs["id"])
           deleted == DeleteUser(users, id, ok)
           res == DeleteResult(state, deleted)
       IN /\ users' = deleted.users
          /\ calls' = DeleteCalls(id)
          /\ state' = res.state
          /\ diags' = res.diags
          /\ origin' = IF deleted.err THEN origin ELSE "none"
          /\ drift' = IF deleted.err THEN drift ELSE {}
          /\ cfgEdited' = IF deleted.err THEN cfgEdited ELSE FALSE
          \* a replacement goes on to create from a plan made without prior state
          /\ plan' = IF ~deleted.err /\ plan.kind = "replace"
                     THEN PlanResourceChange(config, AbsentState)
                     ELSE NoPlan
    /\ Invoked("Delete")
    /\ UNCHANGED <<detail, otherVars>>
    /\ UNCHANGED <<clock, config, dsConfig, dsState>>

ImportState(reqId, ok, withRole) ==
    /\ ~state.present
    /\ LET email == reqId
           got == GetUser(users, email, ok, withRole)
           res == ImportStateResult(state, got)
       IN /\ calls' = ImportStateCalls(email)
          /\ state' = res.state
          /\ diags' = res.diags
          /\ origin' = IF got.err THEN origin ELSE "seeded"
    /\ drift' = {}
    /\ cfgEdited' = FALSE
    /\ plan' = NoPlan
    /\ Invoked("ImportState")
    /\ UNCHANGED <<detail, otherVars>>
    /\ UNCHANGED <<users, clock, config, dsConfig, dsState>>

-----------------------------------------------------------------------------
(* UserResource handlers of instances running at the same time: each call   *)
(* of a handler is a step of its own                                        *)

\* What the steps of concurrent instances leave alone.
soloVars == <<config, state, plan, origin, lastOp, diags, calls, drift, cfgEdited,
              dsConfig, dsState, detail, providerData, env, apiClient, providerDiags,
              response, result, nameConfig>>

\* The host takes up a changed role for instance i.
ConcEditRole(i, role) ==
    /\ instances[i].pc = "idle"
    /\ instances[i].cfg.role # role
    /\ instances' = [instances EXCEPT ![i].cfg.role = role]
    /\ UNCHANGED <<users, clock>>
    /\ UNCHANGED soloVars

ConcCreate(i, ok, withRole) ==
    LET inst == instances[i]
        data == PlannedValues(inst.cfg, AbsentState)
        createReq == [Email |-> ValueString(data["email"]),
                      Role |-> ValueString(data["role"])]
        created == CreateUser(users, clock, createReq, ok, withRole)
        res == CreateResult(inst.state, data, created)
    IN /\ inst.pc = "idle"
       /\ PlanKind(inst.cfg, inst.state) = "create"
       /\ clock < MaxClock
       /\ users' = created.users
       /\ clock' = created.clock
       /\ instances' = [instances EXCEPT ![i] = Ended(inst, res)]
       /\ UNCHANGED soloVars

ConcRead(i, ok, withRole) ==
    LET inst == instances[i]
        got == GetUser(users, ValueString(inst.state.attrs["id"]), ok, withRole)
        res == ReadResult(inst.state, got)
    IN /\ inst.pc = "idle"
       /\ inst.state.present
       /\ instances' = [instances EXCEPT ![i] = Ended(inst, res)]
       /\ UNCHANGED <<users, clock>>
       /\ UNCHANGED soloVars

\* Update up to the return of UpdateUserRole.
ConcUpdatePatch(i, okPatch, okGet, withRole) ==
    LET inst == instances[i]
        data == PlannedValues(inst.cfg, inst.state)
        id == ValueString(data["id"])
        patched == UpdateUserRole(users, clock, id, ValueString(data["role"]), okPatch)
        alone == UpdateResult(inst.state, data, patched,
                              GetUser(patched.users, id, okGet, withRole))
    IN /\ inst.pc = "idle"
       /\ PlanKind(inst.cfg, inst.state) = "update"
       /\ clock < MaxClock
       /\ users' = patched.users
       /\ clock' = patched.clock
       /\ instances' =
             [instances EXCEPT ![i] =
                IF patched.err
                THEN Ended(inst, alone)
                ELSE [inst EXCEPT !.pc = "patched", !.data = data,
                                  !.pending = [ok |-> okGet, withRole |-> withRole],
                                  !.alone = alone]]
       /\ UNCHANGED soloVars

\* Update from GetUser to State.Set.
ConcUpdateGet(i) ==
    LET inst == instances[i]
        data == HandlerData(instances, i)
        got == GetUser(users, ValueString(data["id"]), inst.pending.ok,
                       inst.pending.withRole)
        res == UpdateResult(inst.state, data, [err |-> FALSE], got)
    IN /\ inst.pc = "patched"
       /\ instances' = [instances EXCEPT ![i] = Ended(inst, res)]
       /\ UNCHANGED <<users, clock>>
       /\ UNCHANGED soloVars

ConcDelete(i, ok) ==
    LET inst == instances[i]
        deleted == DeleteUser(users, ValueString(inst.state.attrs["id"]), ok)
        res == DeleteResult(inst.state, deleted)
    IN /\ inst.pc = "idle"
       /\ inst.state.present
       /\ users' = deleted.users
       /\ instances' = [instances EXCEPT ![i] = Ended(inst, res)]
       /\ UNCHANGED clock
       /\ UNCHANGED soloVars

-----------------------------------------------------------------------------
(* The remote instance changing out-of-band *)

\* The live user the resource state refers to, if any.
Managed(u) == state.present /\ state.attrs["id"] = u

Drifted(u, attrs) == drift' = IF Managed(u) THEN drift \cup attrs ELSE drift

\* The invited user completes signup: is_pending flips.
OobAcceptInvite(u) ==
    /\ users[u].status = "live"
    /\ users[u].isPending
    /\ clock < MaxClock
    /\ clock' = clock + 1
    /\ users' = [users EXCEPT ![u].isPending = FALSE, ![u].updatedAt = clock + 1]
    /\ Drifted(u, {"is_pending", "updated_at"})
    /\ UNCHANGED <<detail, otherVars>>
    /\ UNCHANGED <<config, state, plan, origin, lastOp, diags, calls,
                   cfgEdited, dsConfig, dsState>>

\* The user's record is touched: updated_at moves.
OobTouch(u) ==
    /\ users[u].status = "live"
    /\ clock < MaxClock
    /\ clock' = clock + 1
    /\ users' = [users EXCEPT ![u].updatedAt = clock + 1]
    /\ Drifted(u, {"updated_at"})
    /\ UNCHANGED <<detail, otherVars>>
    /\ UNCHANGED <<config, state, plan, origin, lastOp, diags, calls,
                   cfgEdited, dsConfig, dsState>>

\* The user edits their name.
OobRename(u) ==
    /\ users[u].status = "live"
    /\ clock < MaxClock
    /\ clock' = clock + 1
    /\ users' = [users EXCEPT
                    ![u].firstName = IF @ = Null THEN "Ann" ELSE Null,
                    ![u].lastName = IF @ = Null THEN "Lee" ELSE Null,
                    ![u].updatedAt = clock + 1]
    /\ Drifted(u, {"first_name", "last_name", "updated_at"})
    /\ UNCHANGED <<detail, otherVars>>
    /\ UNCHANGED <<config, state, plan, origin, lastOp, diags, calls,
                   cfgEdited, dsConfig, dsState>>

\* An administrator changes the user's role in the n8n UI.
OobSetRole(u, role) ==
    /\ users[u].status = "live"
    /\ users[u].role # role
    /\ clock < MaxClock
    /\ clock' = clock + 1
    /\ users' = [users EXCEPT ![u].role = role, ![u].updatedAt = clock + 1]
    /\ Drifted(u, {"role", "updated_at"})
    /\ UNCHANGED <<detail, otherVars>>
    /\ UNCHANGED <<config, state, plan, origin, lastOp, diags, calls,
                   cfgEdited, dsConfig, dsState>>

\* An administrator removes the user in the n8n UI.
OobDelete(u) ==
    /\ users[u].status = "live"
    /\ users' = [users EXCEPT ![u] = DeletedUser]
    /\ Drifted(u, {"deleted"})
    /\ UNCHANGED <<detail, otherVars>>
    /\ UNCHANGED <<clock, config, state, plan, origin, lastOp, diags,
                   calls, cfgEdited, dsConfig, dsState>>

\* An administrator invites a user in the n8n UI.
OobInvite(email, role) ==
    /\ clock < MaxClock
    /\ LET created == CreateUser(users, clock, [Email |-> email, Role |-> role], TRUE, TRUE)
       IN /\ ~created.err
          /\ users' = created.users
          /\ clock' = created.clock
    /\ UNCHANGED <<detail, otherVars>>
    /\ UNCHANGED <<config, state, plan, origin, lastOp, diags, calls,
                   drift, cfgEdited, dsConfig, dsState>>

-----------------------------------------------------------------------------
(* UserDataSource.Read *)

MissingAttribute == "Missing Attribute"

\* Mutant: the validation tests the email for unknown instead of null.
NeitherSpecifiedEmailUnknown(data) == data["id"] = Null /\ data["email"] = Unknown

\* "Validate that either ID or email is specified"
NeitherSpecified(data) == data["id"] = Null /\ data["email"] = Null

\* Mutant: the lookup goes by id only when no email is supplied.
QueryByIDUnlessEmail(data) == data["email"] = Null

\* "Query by ID or email"
QueryByID(data) == data["id"] # Null

\* "Map response body to model"
DataSourceState(data, user) ==
    [data EXCEPT
        !["id"] = user.ID,
        !["email"] = user.Email,
        !["is_pending"] = BoolValue(user.IsPending),
        !["created_at"] = FormatRFC3339(user.CreatedAt),
        !["updated_at"] = FormatRFC3339(user.UpdatedAt),
        !["role"] = IF user.Role # "" THEN user.Role ELSE Null,
        !["first_name"] = user.FirstName,
        !["last_name"] = user.LastName,
        !["invite_accept_url"] =
            IF user.InviteAcceptUrl # "" THEN user.InviteAcceptUrl ELSE Null]

\* Identifiers a data source configuration may carry; Null is "not supplied".
DataSourceIds == {Null, "non-existent-id"} \cup UserIds
DataSourceEmails == {Null, "non-existent@example.com"} \cup Emails

DataSourceRead(id, email, ok, withRole, style) ==
    /\ dsConfig' = [id |-> id, email |-> email]
    /\ LET data == [NullAttrs EXCEPT !["id"] = id, !["email"] = email]
           ident == IF QueryByID(data)
                    THEN ValueString(data["id"])
                    ELSE ValueString(data["email"])
           got == IF QueryByID(data)
                  THEN GetUser(users, ident, ok, withRole)
                  ELSE GetUserByEmail(users, ident, ok, withRole)
       IN IF NeitherSpecified(data)
          THEN /\ diags' = MissingAttribute
               /\ detail' = "Either 'id' or 'email' must be specified"
               /\ calls' = <<>>
               /\ dsState' = AbsentState
          ELSE /\ calls' = <<Call("GET", ident, "", "")>>
               /\ diags' = IF got.err THEN ClientError ELSE NoError
               /\ detail' = IF got.err
                            THEN "Unable to read user, got error: "
                                 \o RequestError(ok, NotFoundReply(ident, style))
                            ELSE ""
               /\ dsState' = IF got.err
                             THEN AbsentState
                             ELSE Present(DataSourceState(data, got.user))
    /\ Invoked("DataSourceRead")
    /\ UNCHANGED otherVars
    /\ UNCHANGED <<users, clock, config, state, plan, origin, drift, cfgEdited>>

-----------------------------------------------------------------------------
(* Specifications *)

\* Out-of-band changes are followed for the user the resource manages: those of
\* other users do not reach the resource's handlers.
ManagedIds == {u \in UserIds : Managed(u)}

\* The resource under the host and the remote instance.
Next ==
    \/ \E email \in Emails, role \in ConfigRoles : EditConfig(email, role)
    \/ Plan
    \/ PlanDestroy
    \/ \E ok \in BOOLEAN, withRole \in BOOLEAN : Create(ok, withRole)
    \/ \E ok \in BOOLEAN, withRole \in BOOLEAN : Read(ok, withRole)
    \/ \E okPatch \in BOOLEAN, okGet \in BOOLEAN, withRole \in BOOLEAN :
          Update(okPatch, okGet, withRole)
    \/ \E ok \in BOOLEAN : Delete(ok)
    \/ \E reqId \in Emails \cup UserIds, ok \in BOOLEAN, withRole \in BOOLEAN :
          ImportState(reqId, ok, withRole)
    \/ \E u \in ManagedIds : OobAcceptInvite(u)
    \/ \E u \in ManagedIds : OobTouch(u)
    \/ \E u \in ManagedIds : OobRename(u)
    \/ \E u \in ManagedIds, role \in ValidRoles : OobSetRole(u, role)
    \/ \E u \in ManagedIds : OobDelete(u)

Spec == Init /\ [][Next]_vars

\* The data source under the remote instance.
NextDataSource ==
    \/ \E id \in DataSourceIds, email \in DataSourceEmails,
          ok \in BOOLEAN, withRole \in BOOLEAN, style \in ReplyStyles :
          DataSourceRead(id, email, ok, withRole, style)
    \/ \E email \in Emails, role \in ValidRoles : OobInvite(email, role)
    \/ \E u \in UserIds : OobAcceptInvite(u)
    \/ \E u \in UserIds : OobDelete(u)

SpecDataSource == Init /\ [][NextDataSource]_vars

\* The resource and the data source of one configuration, served by the one
\* client: the handlers of both, the host's planning, and the removal of the
\* managed user behind the provider's back.
NextCalls ==
    \/ \E role \in ValidRoles : EditConfig(config.email, role)
    \/ Plan
    \/ PlanDestroy
    \/ \E ok \in BOOLEAN, withRole \in BOOLEAN : Create(ok, withRole)
    \/ \E ok \in BOOLEAN, withRole \in BOOLEAN : Read(ok, withRole)
    \/ \E okPatch \in BOOLEAN, okGet \in BOOLEAN, withRole \in BOOLEAN :
          Update(okPatch, okGet, withRole)
    \/ \E ok \in BOOLEAN : Delete(ok)
    \/ \E reqId \in Emails, ok \in BOOLEAN, withRole \in BOOLEAN :
          ImportState(reqId, ok, withRole)
    \/ \E id \in {Null, "non-existent-id"}, email \in {Null, "b@x.com"}, ok \in BOOLEAN :
          DataSourceRead(id, email, ok, TRUE, "message")
    \/ \E u \in ManagedIds : OobDelete(u)

SpecCalls == Init /\ [][NextCalls]_vars

\* The provider's Configure under every configuration and environment.
NextConfigure == Configure

\* doRequest under every outcome of httpClient.Do.
NextTransport == DoRequest

SpecTransport == InitTransport /\ [][NextTransport]_vars

SpecConfigure == InitConfigure /\ [][NextConfigure]_vars

\* Two resource instances whose handlers the host runs at the same time.
NextConcurrent ==
    \/ \E i \in InstanceIds, role \in ValidRoles : ConcEditRole(i, role)
    \/ \E i \in InstanceIds, ok \in BOOLEAN, withRole \in BOOLEAN :
          ConcCreate(i, ok, withRole)
    \/ \E i \in InstanceIds, ok \in BOOLEAN, withRole \in BOOLEAN :
          ConcRead(i, ok, withRole)
    \/ \E i \in InstanceIds, okPatch \in BOOLEAN, okGet \in BOOLEAN,
          withRole \in BOOLEAN : ConcUpdatePatch(i, okPatch, okGet, withRole)
    \/ \E i \in InstanceIds : ConcUpdateGet(i)
    \/ \E i \in InstanceIds, ok \in BOOLEAN : ConcDelete(i, ok)

SpecConcurrent == InitConcurrent /\ [][NextConcurrent]_vars

\* What an instance may decide for a user it creates.
AssignedValues ==
    {Assigned(role, name, name, isPending) :
        role \in ValidRoles, name \in {Null, "Ann"}, isPending \in BOOLEAN}

\* The resource created, destroyed and created again against an instance that
\* decides the stored user itself.
NextCreate ==
    \/ \E email \in Emails, role \in ConfigRoles : EditConfig(email, role)
    \/ Plan
    \/ PlanDestroy
    \/ \E ok \in BOOLEAN, withRole \in BOOLEAN, given \in AssignedValues :
          CreateOverridden(ok, withRole, given)
    \/ \E ok \in BOOLEAN : Delete(ok)

SpecCreate == Init /\ [][NextCreate]_vars

\* Create, Read and Update of the resource with nobody else changing the
\* remote instance.
NextLifecycle ==
    \/ \E role \in ValidRoles : EditConfig(config.email, role)
    \/ Plan
    \/ \E ok \in BOOLEAN, withRole \in BOOLEAN : Create(ok, withRole)
    \/ \E ok \in BOOLEAN, withRole \in BOOLEAN : Read(ok, withRole)
    \/ \E okPatch \in BOOLEAN, okGet \in BOOLEAN, withRole \in BOOLEAN :
          Update(okPatch, okGet, withRole)

SpecLifecycle == Init /\ [][NextLifecycle]_vars

\* The resource applied under configurations that give first_name and
\* last_name and under configurations that do not.
NextNames ==
    \/ \E role \in ValidRoles : EditConfig(config.email, role)
    \/ \E firstName \in FirstNames, lastName \in LastNames :
          EditNames(firstName, lastName)
    \/ ValidateNames
    \/ PlanNamed
    \/ PlanDestroy
    \/ \E ok \in BOOLEAN, withRole \in BOOLEAN : Create(ok, withRole)
    \/ \E ok \in BOOLEAN, withRole \in BOOLEAN : Read(ok, withRole)
    \/ \E okPatch \in BOOLEAN, okGet \in BOOLEAN, withRole \in BOOLEAN :
          Update(okPatch, okGet, withRole)
    \/ \E ok \in BOOLEAN : Delete(ok)

SpecNames == Init /\ [][NextNames]_vars

-----------------------------------------------------------------------------
(* Properties of the resource's plan *)

\* A plan for a resource that stays: made by Plan over an existing state.
PlannedOverState == state.present /\ plan.kind \in {"noop", "update", "replace"}

\* C1: whenever the configured email differs from the email in the prior state,
\* the plan is a replacement (Delete, then Create); a plan that schedules Update
\* always carries the email of the state, so Update is never invoked with another.
EmailChangeForcesReplace ==
    /\ (PlannedOverState /\ config.email # state.attrs["email"]) => plan.kind = "replace"
    /\ plan.kind = "update" =>
          /\ state.present
          /\ plan.values["email"] = state.attrs["email"]
          /\ config.email = state.attrs["email"]

EmailChangeForcesReplace_Witness ==
    /\ PlannedOverState
    /\ config.email # state.attrs["email"]
    /\ plan.kind = "replace"
    /\ origin = "create"

\* C2 (as claimed): when only role differs between the configuration and the
\* prior state, the plan is an in-place Update and every computed attribute
\* keeps its prior-state value in the plan, none being unknown.
RoleChangePlanKeepsComputed ==
    (/\ PlannedOverState
     /\ config.email = state.attrs["email"]
     /\ config.role # state.attrs["role"])
    => /\ plan.kind = "update"
       /\ \A a \in ComputedAttrs :
             plan.values[a] = state.attrs[a] /\ plan.values[a] # Unknown

\* C3: after a successful Create, with the configuration unchanged and only
\* is_pending or updated_at changed out-of-band, refreshing with Read and then
\* planning gives an empty plan: nothing scheduled, every planned value equal
\* to the state's.
ExternalChangePlansNothing ==
    (/\ origin = "create"
     /\ ~cfgEdited
     /\ drift \subseteq {"is_pending", "updated_at"}
     /\ lastOp = "Read"
     /\ diags = NoError
     /\ PlannedOverState)
    => /\ plan.kind = "noop"
       /\ plan.values = state.attrs

ExternalChangePlansNothing_Witness ==
    /\ origin = "create"
    /\ ~cfgEdited
    /\ drift = {"is_pending", "updated_at"}
    /\ lastOp = "Read"
    /\ diags = NoError
    /\ state.attrs["is_pending"] = "false"
    /\ plan.kind = "noop"

-----------------------------------------------------------------------------
(* Properties of the resource's handlers *)

\* C4: a lifecycle method that ends with an error diagnostic has written nothing:
\* the state after the step is the state before it (absent stays absent, a
\* present state keeps every attribute).
FailedHandlerKeepsState == [][diags' # NoError => state' = state]_vars

\* Update's role change went through and its re-fetch failed.
FailedHandlerKeepsState_Witness ==
    /\ origin = "create"
    /\ lastOp = "Update"
    /\ diags = ClientError
    /\ Len(calls) = 2
    /\ state.present
    /\ state.attrs["role"] # users[state.attrs["id"]].role

UpdateStep ==
    \E okPatch \in BOOLEAN, okGet \in BOOLEAN, withRole \in BOOLEAN :
        Update(okPatch, okGet, withRole)

\* C5 (as claimed): after a successful Update the state holds the planned role
\* and the re-fetched updated_at, and every other attribute has the value it
\* had in the prior state.
UpdateKeepsOtherAttributes ==
    [][(UpdateStep /\ diags' = NoError)
       => /\ state'.present
          /\ state'.attrs["role"] = plan.values["role"]
          /\ state'.attrs["updated_at"] =
                FormatRFC3339(users'[state.attrs["id"]].updatedAt)
          /\ \A a \in Attrs \ {"role", "updated_at"} :
                state'.attrs[a] = state.attrs[a]]_vars


\* C6: for each valid role, a successful Create with that role followed by a
\* successful Read, with no out-of-band change and the configuration as it was,
\* leaves the configured role in state.
CreateThenReadKeepsRole ==
    (/\ origin = "create"
     /\ lastOp = "Read"
     /\ diags = NoError
     /\ drift = {}
     /\ ~cfgEdited)
    => /\ config.role \in ValidRoles
       /\ state.attrs["role"] = config.role

CreateThenReadKeepsRole_Witness ==
    /\ origin = "create"
    /\ lastOp = "Read"
    /\ diags = NoError
    /\ drift = {}
    /\ ~cfgEdited
    /\ config.role = "global:admin"
    /\ state.attrs["role"] = "global:admin"

\* The state Create and then Read leave for the live user id, configured with
\* that user's email and role; w1 and w2 say whether the two responses carry
\* the role.
CreateThenReadState(id, w1, w2) ==
    LET cfg == [email |-> users[id].email, role |-> users[id].role]
        data == PlannedValues(cfg, AbsentState)
        created == CreateState(data, UserJSON(users, id, w1, TRUE))
    IN ReadState(created, UserJSON(users, id, w2, FALSE))

ImportedLikeCreated ==
    LET id == state.attrs["id"] IN
    /\ state.present
    /\ id \in UserIds
    /\ users[id].status = "live"
    /\ state.attrs["email"] = users[id].email
    /\ \A w1 \in BOOLEAN, w2 \in BOOLEAN :
          \A a \in Attrs \ {"invite_accept_url"} :
             state.attrs[a] = CreateThenReadState(id, w1, w2)[a]

\* C7 (as claimed): ImportState with an existing user's email and then Read,
\* with no out-of-band change in between, leave a state whose id and email are
\* the remote user's and whose attributes other than invite_accept_url equal
\* those Create and then Read leave for the same user.
ImportThenReadMatchesCreateThenRead ==
    [][(origin = "seeded" /\ origin' = "import" /\ drift = {})
       => ImportedLikeCreated']_vars

-----------------------------------------------------------------------------
(* Properties of the data source *)

DataSourceWasRead == lastOp = "DataSourceRead"

\* C8: a data source read configured with neither id nor email ends with a
\* "Missing Attribute" error, writes no state and issues no API call.
NeitherSuppliedIsRejected ==
    (DataSourceWasRead /\ dsConfig.id = Null /\ dsConfig.email = Null)
    => /\ diags = MissingAttribute
       /\ ~dsState.present
       /\ calls = <<>>

NeitherSuppliedIsRejected_Witness ==
    /\ DataSourceWasRead
    /\ dsConfig.id = Null
    /\ dsConfig.email = Null
    /\ diags = MissingAttribute
    /\ \E u \in UserIds : users[u].status = "live"

\* C9 (as claimed): a configuration supplying both id and email is rejected
\* with a configuration error and no API call is issued.
BothSuppliedIsRejected ==
    (DataSourceWasRead /\ dsConfig.id # Null /\ dsConfig.email # Null)
    => /\ diags = MissingAttribute
       /\ calls = <<>>

\* C9 (amended): the data source rejects a configuration only when neither id
\* nor email is supplied; a configuration supplying both is accepted: the read
\* issues exactly one GET, for the id, and the supplied email plays no part
\* (the state's id is the configured id, whatever email was supplied).
BothSuppliedLooksUpById ==
    /\ (DataSourceWasRead /\ diags = MissingAttribute)
          => (dsConfig.id = Null /\ dsConfig.email = Null)
    /\ (DataSourceWasRead /\ dsConfig.id # Null /\ dsConfig.email # Null)
          => /\ calls = <<Call("GET", dsConfig.id, "", "")>>
             /\ diags \in {NoError, ClientError}
             /\ dsState.present <=> diags = NoError
             /\ dsState.present => dsState.attrs["id"] = dsConfig.id

BothSuppliedLooksUpById_Witness ==
    /\ DataSourceWasRead
    /\ dsConfig.id # Null
    /\ dsConfig.email \in Emails
    /\ diags = NoError
    /\ dsState.present
    /\ dsState.attrs["email"] # dsConfig.email
    /\ \E u \in UserIds : users[u].status = "live" /\ users[u].email = dsConfig.email

\* s contains t
Contains(s, t) ==
    \E i \in 1..(Len(s) - Len(t) + 1) : SubSeq(s, i, i + Len(t) - 1) = t

NotFoundByID(id) == "User with ID \"" \o id \o "\" not found"

NotFoundByEmail(email) == "User with email \"" \o email \o "\" not found"

\* A data source read by id / by email that reached the remote instance and
\* found no user there.
MissedByID ==
    \E id \in DataSourceIds \ {Null}, email \in DataSourceEmails,
       withRole \in BOOLEAN, style \in ReplyStyles :
        /\ Lookup(users, id) = {}
        /\ DataSourceRead(id, email, TRUE, withRole, style)

MissedByEmail ==
    \E email \in DataSourceEmails \ {Null}, withRole \in BOOLEAN, style \in ReplyStyles :
        /\ Lookup(users, email) = {}
        /\ DataSourceRead(Null, email, TRUE, withRole, style)

\* C11 (as claimed): a data source lookup that misses reports an error naming
\* the identifier and its kind: 'User with ID "<id>" not found' for a lookup by
\* id, 'User with email "<email>" not found' for a lookup by email; the
\* message of one kind never carries the text of the other.
NotFoundNamesIdentifierAndKind ==
    [][/\ MissedByID =>
            /\ diags' # NoError
            /\ Contains(detail', NotFoundByID(dsConfig'.id))
            /\ ~Contains(detail', "User with email")
       /\ MissedByEmail =>
            /\ diags' # NoError
            /\ Contains(detail', NotFoundByEmail(dsConfig'.email))
            /\ ~Contains(detail', "User with ID")]_vars

ReadStep == \E ok \in BOOLEAN, withRole \in BOOLEAN : Read(ok, withRole)

\* C14 (as claimed): a successful Read fetches the user by the id in prior
\* state, overwrites every attribute except id with the fetched user's values,
\* leaves id unchanged and changes nothing at the remote; a second Read of the
\* unchanged remote leaves the state as the first one left it.
ReadOverwritesAllButId ==
    [][\A withRole \in BOOLEAN :
          (Read(TRUE, withRole) /\ diags' = NoError) =>
             LET id == state.attrs["id"]
                 u == users[id]
             IN /\ calls' = <<Call("GET", id, "", "")>>
                /\ users' = users /\ clock' = clock
                /\ state'.attrs["id"] = id
                /\ state'.attrs["email"] = u.email
                /\ state'.attrs["role"] = u.role
                /\ state'.attrs["first_name"] = u.firstName
                /\ state'.attrs["last_name"] = u.lastName
                /\ state'.attrs["is_pending"] = BoolValue(u.isPending)
                /\ state'.attrs["created_at"] = FormatRFC3339(u.createdAt)
                /\ state'.attrs["updated_at"] = FormatRFC3339(u.updatedAt)
                /\ state'.attrs["invite_accept_url"] = Null
                /\ ReadResult(state', GetUser(users', id, TRUE, withRole)).state = state']_vars

\* The state came to be: created by Create, or seeded by ImportState.
IdAssigned ==
    LET id == state'.attrs["id"] IN
    \/ /\ lastOp' = "Create"
       /\ id \in UserIds
       /\ users[id].status = "free"
       /\ users'[id].status = "live"
    \/ /\ lastOp' = "ImportState"
       /\ id \in UserIds
       /\ users[id].status = "live"
       /\ users[id].email = state'.attrs["email"]

\* C15: the id of a resource present in state is the id the remote assigned
\* (returned by Create or resolved by ImportState) and no step of planning,
\* Read or Update changes it: it goes only when the state goes, on Delete.
IdNeverChanges ==
    [][/\ (~state.present /\ state'.present) => IdAssigned
       /\ (state.present /\ state'.present) => state'.attrs["id"] = state.attrs["id"]
       /\ (state.present /\ ~state'.present) => lastOp' = "Delete"
       /\ plan'.kind \in {"noop", "update", "replace"} =>
             plan'.values["id"] = state'.attrs["id"]]_vars

\* An imported resource whose role was then updated in place.
IdNeverChanges_Witness ==
    /\ origin = "import"
    /\ lastOp = "Update"
    /\ diags = NoError
    /\ state.present
    /\ state.attrs["id"] = UserId(1)
    /\ state.attrs["role"] = "global:admin"

\* C16 (as claimed): Delete for a resource whose remote user is already gone
\* ends like a first successful Delete: the resource absent from state and no
\* error reported by the provider.
DeleteOfRemovedUserSucceeds ==
    [][(Delete(TRUE) /\ Lookup(users, state.attrs["id"]) = {})
       => (~state'.present /\ diags' = NoError)]_vars

-----------------------------------------------------------------------------
(* Properties of the provider's Configure *)

Configured == lastOp = "Configure"

\* The value a setting resolves to: the configuration value when set,
\* otherwise the environment variable.
Resolved(configured, fromEnv) ==
    IF configured = Null THEN fromEnv
    ELSE IF configured = Unknown THEN "" ELSE configured

ResolvedApiKey == Resolved(providerData.api_key, env.N8N_API_KEY)

ResolvedInstanceUrl == Resolved(providerData.instance_url, env.N8N_INSTANCE_URL)

Reported(attr) == \E d \in providerDiags : d.path = attr

\* C17: api_key and instance_url each resolve to the configuration value when
\* it is set and to the environment variable otherwise; the client Configure
\* builds carries exactly the resolved values, and it is built whenever both
\* settings are known and resolve to a non-empty value.
ExplicitWinsOverEnvironment ==
    Configured =>
       /\ apiClient.built =>
             /\ apiClient.apiKey = ResolvedApiKey
             /\ apiClient.baseURL = ResolvedInstanceUrl
       /\ (/\ Unknown \notin {providerData.api_key, providerData.instance_url}
           /\ ResolvedApiKey # ""
           /\ ResolvedInstanceUrl # "") => apiClient.built

\* The configured key wins over the environment's; the URL comes from the
\* environment.
ExplicitWinsOverEnvironment_Witness ==
    /\ Configured
    /\ apiClient.built
    /\ providerData.api_key = "key-cfg"
    /\ env.N8N_API_KEY = "key-env"
    /\ apiClient.apiKey = "key-cfg"
    /\ providerData.instance_url = Null
    /\ apiClient.baseURL = "https://env.app.n8n.cloud"

\* C18 (as claimed): a setting that is unknown, or that resolves to an empty
\* value, gets an attribute error diagnostic of its own, and no client is
\* built or handed out.
BadSettingIsReported ==
    Configured =>
       /\ (providerData.api_key = Unknown \/ ResolvedApiKey = "")
             => (Reported("api_key") /\ apiClient = NoClient)
       /\ (providerData.instance_url = Unknown \/ ResolvedInstanceUrl = "")
             => (Reported("instance_url") /\ apiClient = NoClient)

\* C18 (amended): every unknown setting gets an attribute error diagnostic;
\* when no setting is unknown, every setting that resolves to an empty value
\* gets one; in both cases no client is built or handed out.  A setting that
\* resolves to an empty value while the other one is unknown gets none.
BadSettingStopsConfigure ==
    LET anyUnknown == Unknown \in {providerData.api_key, providerData.instance_url}
    IN Configured =>
       /\ providerData.api_key = Unknown => Reported("api_key")
       /\ providerData.instance_url = Unknown => Reported("instance_url")
       /\ (~anyUnknown /\ ResolvedApiKey = "") => Reported("api_key")
       /\ (~anyUnknown /\ ResolvedInstanceUrl = "") => Reported("instance_url")
       /\ (anyUnknown \/ ResolvedApiKey = "" \/ ResolvedInstanceUrl = "")
             => apiClient = NoClient
       /\ (anyUnknown /\ providerData.api_key # Unknown) => ~Reported("api_key")
       /\ (anyUnknown /\ providerData.instance_url # Unknown) => ~Reported("instance_url")

\* The key is unknown and the URL resolves to nothing: one diagnostic, no client.
BadSettingStopsConfigure_Witness ==
    /\ Configured
    /\ providerData.api_key = Unknown
    /\ ResolvedInstanceUrl = ""
    /\ providerData.instance_url # Unknown
    /\ Reported("api_key")
    /\ ~Reported("instance_url")
    /\ apiClient = NoClient

\* C19 (as claimed): the client's timeout is the configured timeout, for every
\* configured integer, 0 included, and 30 seconds when none is configured.
ExplicitTimeoutIsUsed ==
    (Configured /\ apiClient.built) =>
       /\ providerData.timeout.state = "known"
             => apiClient.timeout = providerData.timeout.value
       /\ providerData.timeout = Int64Null => apiClient.timeout = 30

-----------------------------------------------------------------------------
(* Properties of the role across Create, Read and Update *)

\* C24: with nobody else changing the remote instance, after any sequence of
\* Create, Read and Update, failed ones included, a resource present in state
\* holds the role the remote user has.
StateRoleIsRemoteRole ==
    LET id == state.attrs["id"] IN
    (state.present /\ id \in UserIds) =>
        /\ users[id].status = "live"
        /\ state.attrs["role"] = users[id].role

-----------------------------------------------------------------------------
(* Properties of ImportState *)

\* C23: ImportState given the id of an existing user leaves the state and the
\* diagnostics that ImportState given that user's email leaves, and when the
\* call succeeds the state holds that user's id and email.
ImportByIdAsByEmail ==
    [][\A u \in UserIds, ok \in BOOLEAN, withRole \in BOOLEAN :
          (users[u].status = "live" /\ ImportState(u, ok, withRole)) =>
             LET byEmail == ImportStateResult(
                                state, GetUser(users, users[u].email, ok, withRole))
             IN /\ state' = byEmail.state
                /\ diags' = byEmail.diags
                /\ ok => /\ state'.present
                         /\ state'.attrs["id"] = u
                         /\ state'.attrs["email"] = users[u].email]_vars

\* ImportState ran with the id of the existing member and seeded the state.
ImportByIdAsByEmail_Witness ==
    /\ lastOp = "ImportState"
    /\ calls = ImportStateCalls(UserId(1))
    /\ origin = "seeded"
    /\ state.attrs["id"] = UserId(1)
    /\ state.attrs["email"] = "b@x.com"

-----------------------------------------------------------------------------
(* Properties of first_name and last_name in the configuration *)

NamesGiven == nameConfig.first_name # Null /\ nameConfig.last_name # Null

\* C22: a configuration that gives first_name and last_name is accepted, and
\* after an apply of it (a Create or an Update that succeeded, the
\* configuration not edited since) the state holds the configured names.
ConfiguredNamesAreApplied ==
    NamesGiven =>
        /\ lastOp = "ValidateResourceConfig" => diags = NoError
        /\ (/\ lastOp \in {"Create", "Update"}
            /\ diags = NoError
            /\ state.present
            /\ ~cfgEdited) =>
               /\ state.attrs["first_name"] = nameConfig.first_name
               /\ state.attrs["last_name"] = nameConfig.last_name

-----------------------------------------------------------------------------
(* Properties of the transport *)

Returned == lastOp = "doRequest"

\* The bodies json.Unmarshal rejects for an ErrorResponse.
UndecodableBodies == {NumericCodeBody("User not found"), TextBody, ""}

\* C21: doRequest returns an error for every completed response with a status
\* of 400 or more and the body, without error, for every completed response
\* with a lower status; with a status of 400 or more, the error of a body that
\* is a structured error carries its code and its message, and the error of a
\* body that does not decode carries the status and the body text.
StatusDecidesError ==
    (Returned /\ response.completed) =>
        /\ response.status >= 400 =>
              /\ result.err
              /\ \A c \in ErrorCodes, m \in ErrorMessages :
                    response.body = StructuredBody(c, m) =>
                       Contains(result.error, c) /\ Contains(result.error, m)
              /\ response.body \in UndecodableBodies =>
                    /\ Contains(result.error, ToString(response.status))
                    /\ Contains(result.error, response.body)
        /\ response.status < 400 =>
              /\ ~result.err
              /\ result.body = response.body

\* doRequest returned for a 400 whose body is a structured error.
StatusDecidesError_Witness ==
    /\ Returned
    /\ response.status = 400
    /\ response.body = StructuredBody("unauthorized", "invalid api key")
    /\ result.error = "API error: unauthorized - invalid api key"

-----------------------------------------------------------------------------
(* Properties of instances running at the same time *)

\* The remote user the state of instance i refers to, as the remote holds it.
RemoteUserOf(us, i) ==
    LET id == instances[i].state.attrs["id"] IN
    IF instances[i].state.present /\ id \in UserIds THEN us[id] ELSE NoUser

\* C20: with two instances for distinct users running handlers at the same
\* time through the one client, whatever calls of the other instance fall
\* between a handler's own calls, the handler leaves its instance the state
\* and the diagnostics it leaves when it runs alone; a step of one instance
\* changes neither the other instance nor the other instance's remote user;
\* and the client's base URL, API key and timeout stay as constructed.
ConcurrentAsAlone ==
    [][/\ \A i \in InstanceIds :
            (instances[i].pc = "patched" /\ instances'[i].pc = "idle") =>
               /\ instances'[i].state = instances[i].alone.state
               /\ instances'[i].diags = instances[i].alone.diags
       /\ \A i \in InstanceIds : \A j \in InstanceIds \ {i} :
            instances'[i] # instances[i] =>
               /\ instances'[j] = instances[j]
               /\ RemoteUserOf(users', j) = RemoteUserOf(users, j)
       /\ apiClient' = apiClient
       /\ apiClient.built]_vars

\* The Updates of A and B overlap: the PATCH of each has returned, the GET of
\* neither has been issued, and A's user was re-created in between the runs.
ConcurrentAsAlone_Witness ==
    /\ \A i \in InstanceIds : instances[i].pc = "patched"
    /\ instances["A"].data["id"] = UserId(3)
    /\ instances["B"].data["id"] = UserId(2)

-----------------------------------------------------------------------------
(* Properties of the calls the handlers issue *)

Methods(cs) == [i \in DOMAIN cs |-> cs[i].method]

\* The calls of the handler invoked last: one call per single-call handler, at
\* most one for the data source, PATCH and then at most one GET for Update; a
\* handler that issued fewer calls than its full sequence ended with an error.
CallsOfLastOp ==
    /\ lastOp = "Create" => Methods(calls) = <<"POST">>
    /\ lastOp = "Read" => Methods(calls) = <<"GET">>
    /\ lastOp = "Delete" => Methods(calls) = <<"DELETE">>
    /\ lastOp = "ImportState" => Methods(calls) = <<"GET">>
    /\ lastOp = "DataSourceRead" =>
          /\ Methods(calls) \in {<<>>, <<"GET">>}
          /\ calls = <<>> => diags # NoError
    /\ lastOp = "Update" =>
          /\ Methods(calls) \in {<<"PATCH">>, <<"PATCH", "GET">>}
          /\ Len(calls) = 1 => diags # NoError

\* C12: no call is retried.  Every handler issues the calls of CallsOfLastOp;
\* Update issues its GET exactly when its PATCH succeeded (the remote took the
\* role change), and a failed PATCH ends Update with an error, no call after it.
NoCallIsRetried ==
    [][/\ CallsOfLastOp'
       /\ UpdateStep =>
            /\ Len(calls') = 2 <=> users' # users
            /\ users' = users => diags' # NoError]_vars

\* Update whose PATCH failed: one call, an error, no GET.
NoCallIsRetried_Witness ==
    /\ lastOp = "Update"
    /\ Methods(calls) = <<"PATCH">>
    /\ diags = ClientError
    /\ state.present
    /\ dsState.present

-----------------------------------------------------------------------------
(* Properties of configuration validation *)

\* C10 (as claimed): a configuration whose role is not an allowed value is
\* rejected before any network call: Create never issues a create request
\* carrying such a role.
InvalidRoleNeverSent ==
    \A i \in DOMAIN calls :
        calls[i].method = "POST" => calls[i].role \in ValidRoles

====
